---- MODULE Spec2Model ----
(***************************************************************************)
(* x402 payment middleware for python-a2a: the negotiation engine          *)
(* (x402PaymentMiddleware.process_task), its requirement store             *)
(* (payment_store) and the metadata codec it reads and writes the          *)
(* x402.payment.* keys with.                                               *)
(*                                                                         *)
(* A call of process_task is one atomic step of the server (ProcessTask);  *)
(* the call's inputs, the facilitator's answers and everything the call    *)
(* did are kept in the variable `call` until the response is handed back   *)
(* (Respond).                                                              *)
(***************************************************************************)
EXTENDS Integers, Sequences, FiniteSets, TLC

\* ---------------------------------------------------------------- bounds

\* longest list of requirements a quote carries
MaxReqs == 2
\* most receipts an incoming submission already carries in its metadata
MaxPriorReceipts == 1
\* payments the client flow makes for one task id
MaxAttempts == 2
\* the clock advances in steps of TickSeconds, MaxTicks steps are counted
TickSeconds == 600
MaxTicks == 3
\* the digests priced reach up to MaxWraps times round the price modulus
MaxWraps == 2

\* ------------------------------------------------------------ data model

TaskIds == {"t1", "t2"}

\* python_a2a TaskState values the engine and the merchant use
TaskState == [SUBMITTED |-> "submitted", INPUT_REQUIRED |-> "input-required",
              COMPLETED |-> "completed", FAILED |-> "failed"]

\* x402_a2a PaymentStatus (kebab-case values)
PaymentStatus == [PAYMENT_REQUIRED  |-> "payment-required",
                  PAYMENT_SUBMITTED |-> "payment-submitted",
                  PAYMENT_VERIFIED  |-> "payment-verified",
                  PAYMENT_COMPLETED |-> "payment-completed",
                  PAYMENT_FAILED    |-> "payment-failed"]

PaymentStatusValues == {PaymentStatus[k] : k \in DOMAIN PaymentStatus}

\* x402_a2a x402ErrorCode members the engine passes to its failure recorder
x402ErrorCode == [INVALID_SIGNATURE |-> "INVALID_SIGNATURE",
                  EXPIRED_PAYMENT   |-> "EXPIRED_PAYMENT",
                  SETTLEMENT_FAILED |-> "SETTLEMENT_FAILED"]

\* PaymentRequirements as the merchant builds them; product = "" stands for
\* an extra map without a "product" entry.
PaymentRequirements(scheme, network, amount, timeout, product) ==
    [scheme |-> scheme, network |-> network, max_amount_required |-> amount,
     max_timeout_seconds |-> timeout, product |-> product]

ReqA == PaymentRequirements("exact", "base-sepolia", "5000000", 600, "laptop")
ReqB == PaymentRequirements("upto", "base", "7000000", 0, "")
ReqC == PaymentRequirements("exact", "base-sepolia", "9000000", 1200, "phone")

ReqPool == {ReqA, ReqB, ReqC}

\* the quoted lists: offers in order, no offer twice
ReqLists(n) ==
    UNION {{s \in [1..k -> ReqPool] : \A i, j \in 1..k : i # j => s[i] # s[j]}
           : k \in 0..n}

\* x402.payment.payload as found in the metadata: kind "absent" (no key),
\* "unparseable" (PaymentPayload(**dict) raises) or "ok".
PaymentPayload(scheme, network) ==
    [kind |-> "ok", scheme |-> scheme, network |-> network]

None == [kind |-> "absent", scheme |-> "", network |-> ""]
Unparseable == [kind |-> "unparseable", scheme |-> "", network |-> ""]

PayloadPool == {PaymentPayload("exact", "base-sepolia"),
                PaymentPayload("upto", "base"),
                PaymentPayload("exact", "base")}

\* SettleResponse, under the alias names its dump (the receipt) carries;
\* "" stands for an unset optional field
SettleResponse(success, network, transaction, errorReason) ==
    [success |-> success, network |-> network, transaction |-> transaction,
     errorReason |-> errorReason]

VerifyResponse(is_valid, invalid_reason) ==
    [is_valid |-> is_valid, invalid_reason |-> invalid_reason]

\* a receipt of an earlier attempt, carried by an incoming submission
PriorReceipt == SettleResponse(FALSE, "base", "", "earlier attempt")

PriorReceiptLists(n) == {[i \in 1..k |-> PriorReceipt] : k \in 0..n}

\* -------------------------------------------------------- metadata codec

\* The custom-fields map: one field per recognised key.  status "" and
\* error "" stand for an absent key; custom_fields is TRUE when the map
\* itself holds a 'custom_fields' key (left there by a write to a bare dict).
NoRequired == [present |-> FALSE, x402Version |-> 0, accepts |-> <<>>]
NoReceipts == [present |-> FALSE, list |-> <<>>]

\* the custom fields: the x402.payment.* keys, a key of another owner
\* (order_ref, "" when absent) and whether the map holds a custom_fields key
EmptyMetadata ==
    [status |-> "", required |-> NoRequired, payload |-> None,
     receipts |-> NoReceipts, error |-> "", order_ref |-> "",
     custom_fields |-> FALSE]

\* status.message: absent (None), or a dict with a text body and a metadata
\* dict of shape "container" ({'custom_fields': {...}}) or "bare" (the
\* metadata dict is the map), or "nometa" (no 'metadata' key).
NoMessage == [present |-> FALSE, text |-> "", shape |-> "nometa",
              fields |-> EmptyMetadata]

MessageDict(text, shape, fields) ==
    [present |-> TRUE, text |-> text, shape |-> shape, fields |-> fields]

TaskStatus(state, message) == [state |-> state, message |-> message]

Task(id, status, artifacts) ==
    [id |-> id, status |-> status, artifacts |-> artifacts]

_get_metadata_dict(message) ==
    IF ~message.present THEN EmptyMetadata
    ELSE IF message.shape = "nometa" THEN EmptyMetadata
    ELSE message.fields

\* message['metadata']['custom_fields'] = metadata
WriteCustomFields(message, metadata) ==
    IF message.shape = "bare"
    THEN [message EXCEPT !.fields = [metadata EXCEPT !.custom_fields = TRUE]]
    ELSE [message EXCEPT !.shape = "container", !.fields = metadata]

\* ------------------------------------------------------ requirement store

\* payment_store is a dict: a function whose domain is the ids it holds
EmptyStore == [k \in {} |-> <<>>]

\* faulty variant: an entry already present is kept (dict.setdefault)
StorePut_setdefault(store, id, requirements) ==
    [k \in (DOMAIN store) \cup {id} |->
        IF k \in DOMAIN store THEN store[k] ELSE requirements]

StorePut(store, id, requirements) ==
    [k \in (DOMAIN store) \cup {id} |->
        IF k = id THEN requirements ELSE store[k]]

\* faulty variant: the cleanup empties the store
StorePop_every_entry(store, id) == [k \in {} |-> <<>>]

StorePop(store, id) == [k \in (DOMAIN store) \ {id} |-> store[k]]

\* dict.get: the list, or <<>> where Python gives None; both are falsy
StoreGet(store, id) == IF id \in DOMAIN store THEN store[id] ELSE <<>>

\* ------------------------------------------------------------ facilitator

\* What the facilitator does when called is the environment's choice.
VerifyOutcomes == {"valid", "invalid", "invalid_noreason", "raise"}
SettleOutcomes == {"success", "failure", "raise"}

\* text of the error a facilitator call raises
FacilitatorError == "facilitator unreachable"

\* MockFacilitator.verify: raises, or answers is_valid with a reason
facilitator_verify(v) ==
    [raised |-> v = "raise",
     response |-> VerifyResponse(v = "valid",
                     IF v = "invalid" THEN "mock_invalid_payload" ELSE "")]

\* MockFacilitator.settle: raises, or answers success with a transaction
facilitator_settle(s, requirements) ==
    [raised |-> s = "raise",
     response |-> IF s = "success"
                  THEN SettleResponse(TRUE, requirements.network, "0xmock", "")
                  ELSE SettleResponse(FALSE, "", "", "mock_settlement_failed")]

\* one call of the facilitator: what it was given, how it answered, and how
\* the task stood when the call was made
FacilitatorCall(fn, payload, requirements, outcome, task) ==
    [fn |-> fn, payload |-> payload, requirements |-> requirements,
     outcome |-> outcome,
     task_state |-> task.status.state,
     payment_status |-> _get_metadata_dict(task.status.message).status]

\* ---------------------------------------------------- negotiation engine

\* The running call: the task object it mutates, the store, the facilitator
\* calls made so far and the number of times the callback was invoked.
Context(task, store) ==
    [task |-> task, payment_store |-> store, calls |-> <<>>, bl_calls |-> 0]

\* faulty variant: the status is read from the custom_fields container only
_get_payment_status_container_only(task) ==
    LET status_str == IF task.status.message.present
                         /\ task.status.message.shape = "container"
                      THEN task.status.message.fields.status
                      ELSE ""
    IN  IF status_str \in PaymentStatusValues THEN status_str ELSE ""

_get_payment_status(task) ==
    LET status_str == _get_metadata_dict(task.status.message).status
    IN  IF status_str \in PaymentStatusValues THEN status_str ELSE ""

_get_payment_payload(task) ==
    LET payload_dict == _get_metadata_dict(task.status.message).payload
    IN  IF payload_dict.kind = "ok" THEN payload_dict ELSE None

\* faulty variant: the network is not compared
_find_matching_requirement_by_scheme(requirements_list, payload) ==
    LET M == {i \in 1..Len(requirements_list) :
                 requirements_list[i].scheme = payload.scheme}
    IN  IF M = {} THEN <<>>
        ELSE <<requirements_list[CHOOSE i \in M : \A j \in M : i <= j]>>

\* faulty variant: with no match, the first offer is taken
_find_matching_requirement_or_first(requirements_list, payload) ==
    LET M == {i \in 1..Len(requirements_list) :
                 /\ requirements_list[i].scheme = payload.scheme
                 /\ requirements_list[i].network = payload.network}
    IN  IF requirements_list = <<>> THEN <<>>
        ELSE IF M = {} THEN <<requirements_list[1]>>
        ELSE <<requirements_list[CHOOSE i \in M : \A j \in M : i <= j]>>

\* the first requirement of the list with the payload's scheme and network,
\* as a sequence of length 1; <<>> for Python's None
RECURSIVE _find_matching_requirement(_, _)
\* faulty variant: of several matching requirements the last one is taken
_find_matching_requirement_last(requirements_list, payload) ==
    LET matching == {i \in 1..Len(requirements_list) :
                        /\ requirements_list[i].scheme = payload.scheme
                        /\ requirements_list[i].network = payload.network}
    IN  IF matching = {} THEN <<>>
        ELSE <<requirements_list[CHOOSE i \in matching :
                                     \A j \in matching : j <= i]>>

_find_matching_requirement(requirements_list, payload) ==
    IF requirements_list = <<>> THEN <<>>
    ELSE LET req == Head(requirements_list)
         IN  IF req.scheme = payload.scheme /\ req.network = payload.network
             THEN <<req>>
             ELSE _find_matching_requirement(Tail(requirements_list), payload)

\* every branch answers True: no creation time is tracked
_validate_payment_expiry(requirements) ==
    IF requirements.max_timeout_seconds <= 0 THEN TRUE ELSE TRUE

\* faulty variant: the verified status is written into a fresh map
_record_payment_verified_fresh_map(task) ==
    IF ~task.status.message.present THEN task
    ELSE LET current_metadata ==
                 [EmptyMetadata
                    EXCEPT !.status = PaymentStatus.PAYMENT_VERIFIED]
         IN  [task EXCEPT !.status.message =
                              WriteCustomFields(@, current_metadata)]

_record_payment_verified(task) ==
    IF ~task.status.message.present THEN task
    ELSE LET current_metadata ==
                 [_get_metadata_dict(task.status.message)
                    EXCEPT !.status = PaymentStatus.PAYMENT_VERIFIED]
         IN  [task EXCEPT !.status.message =
                              WriteCustomFields(@, current_metadata)]

\* faulty variant: the receipts array is started afresh instead of appended to
_record_payment_success_overwrites(task, settle_response) ==
    IF ~task.status.message.present THEN task
    ELSE LET metadata ==
                 [_get_metadata_dict(task.status.message)
                    EXCEPT !.status = PaymentStatus.PAYMENT_COMPLETED,
                           !.receipts = [present |-> TRUE,
                                         list |-> <<settle_response>>],
                           !.payload = None,
                           !.required = NoRequired]
         IN  [task EXCEPT !.status.message = WriteCustomFields(@, metadata)]

_record_payment_success(task, settle_response) ==
    IF ~task.status.message.present THEN task
    ELSE LET metadata ==
                 [_get_metadata_dict(task.status.message)
                    EXCEPT !.status = PaymentStatus.PAYMENT_COMPLETED,
                           !.receipts = [present |-> TRUE,
                                         list |-> Append(@.list, settle_response)],
                           !.payload = None,
                           !.required = NoRequired]
         IN  [task EXCEPT !.status.message = WriteCustomFields(@, metadata)]

\* faulty variant: the failure recorder drops the required key as well
_record_payment_failure_drops_required(task, error_code, settle_response) ==
    IF ~task.status.message.present THEN task
    ELSE LET metadata ==
                 [_get_metadata_dict(task.status.message)
                    EXCEPT !.status = PaymentStatus.PAYMENT_FAILED,
                           !.error = error_code,
                           !.receipts = [present |-> TRUE,
                                         list |-> Append(@.list, settle_response)],
                           !.payload = None,
                           !.required = NoRequired]
         IN  [task EXCEPT !.status.message = WriteCustomFields(@, metadata)]

\* faulty variant: the failure is recorded without changing the status
_record_payment_failure_keeps_status(task, error_code, settle_response) ==
    IF ~task.status.message.present THEN task
    ELSE LET metadata ==
                 [_get_metadata_dict(task.status.message)
                    EXCEPT !.error = error_code,
                           !.receipts = [present |-> TRUE,
                                         list |-> Append(@.list, settle_response)],
                           !.payload = None]
         IN  [task EXCEPT !.status.message = WriteCustomFields(@, metadata)]

_record_payment_failure(task, error_code, settle_response) ==
    IF ~task.status.message.present THEN task
    ELSE LET metadata ==
                 [_get_metadata_dict(task.status.message)
                    EXCEPT !.status = PaymentStatus.PAYMENT_FAILED,
                           !.error = error_code,
                           !.receipts = [present |-> TRUE,
                                         list |-> Append(@.list, settle_response)],
                           !.payload = None]
         IN  [task EXCEPT !.status.message = WriteCustomFields(@, metadata)]

\* faulty variant: the stored requirements are not cleaned up on failure
_fail_payment_keeps_entry(ctx, error_code, error_reason) ==
    LET failed == [ctx.task EXCEPT
                     !.status = TaskStatus(TaskState.FAILED, NoMessage)]
        failure_response == SettleResponse(FALSE, "base", "", error_reason)
    IN  [ctx EXCEPT
           !.task = _record_payment_failure(failed, error_code, failure_response)]

\* faulty variant: the failure is reported on a new task, not the caller's
_fail_payment_new_task(ctx, error_code, error_reason) ==
    LET failed == Task("", TaskStatus(TaskState.FAILED, NoMessage),
                       ctx.task.artifacts)
        failure_response == SettleResponse(FALSE, "base", "", error_reason)
    IN  [ctx EXCEPT
           !.task = _record_payment_failure(failed, error_code, failure_response),
           !.payment_store = StorePop(@, ctx.task.id)]

\* the new TaskStatus has no message, so the failure recorder finds nothing
\* to write to
_fail_payment(ctx, error_code, error_reason) ==
    LET failed == [ctx.task EXCEPT
                     !.status = TaskStatus(TaskState.FAILED, NoMessage)]
        failure_response == SettleResponse(FALSE, "base", "", error_reason)
    IN  [ctx EXCEPT
           !.task = _record_payment_failure(failed, error_code, failure_response),
           !.payment_store = StorePop(@, failed.id)]

\* req.model_dump(by_alias=True): the dict placed in accepts
ModelDump(req) ==
    [scheme |-> req.scheme, network |-> req.network,
     maxAmountRequired |-> req.max_amount_required,
     maxTimeoutSeconds |-> req.max_timeout_seconds,
     extra |-> [product |-> req.product]]

\* faulty variant: the accepts list is built back to front
_handle_payment_required_reversed(ctx, exception) ==
    LET n == Len(exception.payment_requirements)
        accepts == [i \in 1..n |->
                       ModelDump(exception.payment_requirements[n + 1 - i])]
        message == MessageDict(exception.text, "container",
                       [EmptyMetadata EXCEPT
                          !.status = PaymentStatus.PAYMENT_REQUIRED,
                          !.required = [present |-> TRUE, x402Version |-> 1,
                                        accepts |-> accepts]])
    IN  [ctx EXCEPT
           !.payment_store =
               StorePut(@, ctx.task.id, exception.payment_requirements),
           !.task.status = TaskStatus(TaskState.INPUT_REQUIRED, message)]

\* exception: [text, payment_requirements]
_handle_payment_required(ctx, exception) ==
    LET accepts == [i \in 1..Len(exception.payment_requirements) |->
                       ModelDump(exception.payment_requirements[i])]
        message == MessageDict(exception.text, "container",
                       [EmptyMetadata EXCEPT
                          !.status = PaymentStatus.PAYMENT_REQUIRED,
                          !.required = [present |-> TRUE, x402Version |-> 1,
                                        accepts |-> accepts]])
    IN  [ctx EXCEPT
           !.payment_store =
               StorePut(@, ctx.task.id, exception.payment_requirements),
           !.task.status = TaskStatus(TaskState.INPUT_REQUIRED, message)]

\* "Verify payment": one call of facilitator.verify inside try/except
VerifyPayment(ctx, payload, requirements, v) ==
    [ctx EXCEPT !.calls =
        Append(@, FacilitatorCall("verify", payload, requirements, v,
                                  ctx.task))]

\* faulty variant: a settle call that raised is tried once more
SettlePayment_retrying(ctx, payload, requirements, s) ==
    LET answer == facilitator_settle(s, requirements)
        once == Append(ctx.calls,
                       FacilitatorCall("settle", payload, requirements, s, ctx.task))
    IN  [ctx |-> [ctx EXCEPT !.calls =
                     IF answer.raised
                     THEN Append(once, FacilitatorCall("settle", payload,
                                                       requirements, s, ctx.task))
                     ELSE once],
         settle_response |->
             IF answer.raised
             THEN SettleResponse(FALSE, requirements.network, "",
                                 "Settlement failed: " \o FacilitatorError)
             ELSE answer.response]

\* faulty variant: the error a settle call raised is not kept in the receipt
SettlePayment_losing_reason(ctx, payload, requirements, s) ==
    LET answer == facilitator_settle(s, requirements)
    IN  [ctx |-> [ctx EXCEPT !.calls =
                     Append(@, FacilitatorCall("settle", payload, requirements,
                                               s, ctx.task))],
         settle_response |->
             IF answer.raised
             THEN SettleResponse(FALSE, requirements.network, "",
                                 "Settlement failed")
             ELSE answer.response]

\* "Settle payment": one call of facilitator.settle; an error it raises
\* becomes a failed SettleResponse
SettlePayment(ctx, payload, requirements, s) ==
    LET answer == facilitator_settle(s, requirements)
    IN  [ctx |-> [ctx EXCEPT !.calls =
                     Append(@, FacilitatorCall("settle", payload, requirements,
                                               s, ctx.task))],
         settle_response |->
             IF answer.raised
             THEN SettleResponse(FALSE, requirements.network, "",
                                 "Settlement failed: " \o FacilitatorError)
             ELSE answer.response]

\* faulty variant: the product's name is not found in the requirement
Confirmation_unnamed(requirements) ==
    [kind |-> "confirmation", product |-> "item"]

\* the purchase confirmation attached once the payment is verified
Confirmation(requirements) ==
    [kind |-> "confirmation",
     product |-> IF requirements.product = "" THEN "item"
                 ELSE requirements.product]

\* lines 240-280: the checks made before the facilitator is asked; the
\* payload, the matched requirement (a list of none or one), and the error
\* the submission is rejected with ("" when it passes)
CheckSubmission(ctx) ==
    LET payload == _get_payment_payload(ctx.task)
        requirements_list == StoreGet(ctx.payment_store, ctx.task.id)
        requirements == _find_matching_requirement(requirements_list, payload)
    IN  [payload |-> payload,
         requirements |-> requirements,
         error_code |->
             IF payload = None \/ requirements_list = <<>> \/ requirements = <<>>
             THEN x402ErrorCode.INVALID_SIGNATURE
             ELSE IF ~_validate_payment_expiry(requirements[1])
             THEN x402ErrorCode.EXPIRED_PAYMENT
             ELSE "",
         error_reason |->
             IF payload = None THEN "Missing payment data"
             ELSE IF requirements_list = <<>>
             THEN "Missing payment requirements"
             ELSE IF requirements = <<>>
             THEN "Payment does not match any accepted option"
             ELSE IF ~_validate_payment_expiry(requirements[1])
             THEN "Payment authorization expired"
             ELSE ""]

\* lines 302-328: the verified status is recorded, the task is COMPLETED and
\* given the confirmation
MarkVerified(ctx, requirements) ==
    LET verified == _record_payment_verified(ctx.task)
    IN  [ctx EXCEPT
           !.task = [verified EXCEPT
                       !.status = TaskStatus(TaskState.COMPLETED,
                                             verified.status.message),
                       !.artifacts = <<Confirmation(requirements)>>]]

\* faulty variant: a rejection that gives no reason is taken for approval
VerifyAndMark_unexplained(ctx, payload, requirements, v) ==
    LET called == VerifyPayment(ctx, payload, requirements, v)
        answer == facilitator_verify(v)
    IN  IF answer.raised
        THEN [valid |-> FALSE,
              ctx |-> _fail_payment(called, x402ErrorCode.INVALID_SIGNATURE,
                          "Verification failed: " \o FacilitatorError)]
        ELSE IF ~answer.response.is_valid
                /\ answer.response.invalid_reason # ""
        THEN [valid |-> FALSE,
              ctx |-> _fail_payment(called, x402ErrorCode.INVALID_SIGNATURE,
                                    answer.response.invalid_reason)]
        ELSE [valid |-> TRUE, ctx |-> MarkVerified(called, requirements)]

\* lines 282-328: verify is called; a payment it does not approve fails, an
\* approved one is marked verified
VerifyAndMark(ctx, payload, requirements, v) ==
    LET called == VerifyPayment(ctx, payload, requirements, v)
        answer == facilitator_verify(v)
    IN  IF answer.raised
        THEN [valid |-> FALSE,
              ctx |-> _fail_payment(called, x402ErrorCode.INVALID_SIGNATURE,
                          "Verification failed: " \o FacilitatorError)]
        ELSE IF ~answer.response.is_valid
        THEN [valid |-> FALSE,
              ctx |-> _fail_payment(called, x402ErrorCode.INVALID_SIGNATURE,
                          IF answer.response.invalid_reason # ""
                          THEN answer.response.invalid_reason
                          ELSE "Invalid payment")]
        ELSE [valid |-> TRUE, ctx |-> MarkVerified(called, requirements)]

\* lines 331-351: settle is called and its answer recorded
SettleAndRecord(ctx, payload, requirements, s) ==
    LET settled == SettlePayment(ctx, payload, requirements, s)
    IN  [settled.ctx EXCEPT
           !.task =
               IF settled.settle_response.success
               THEN _record_payment_success(settled.ctx.task,
                                            settled.settle_response)
               ELSE _record_payment_failure(settled.ctx.task,
                        x402ErrorCode.SETTLEMENT_FAILED,
                        settled.settle_response)]

\* lines 355-357: the stored requirements are removed if they are there
CleanUp(ctx) ==
    [ctx EXCEPT !.payment_store = IF ctx.task.id \in DOMAIN @
                                  THEN StorePop(@, ctx.task.id) ELSE @]

_handle_payment_submission(ctx, v, s) ==
    LET checked == CheckSubmission(ctx)
        verified == VerifyAndMark(ctx, checked.payload,
                                  checked.requirements[1], v)
    IN  IF checked.error_code # ""
        THEN _fail_payment(ctx, checked.error_code, checked.error_reason)
        ELSE IF ~verified.valid
        THEN verified.ctx
        ELSE CleanUp(SettleAndRecord(verified.ctx, checked.payload,
                                     checked.requirements[1], s))

\* The callback handed to process_task, as the merchant's
\* _execute_business_logic behaves: it returns the task completed with the
\* public information, raises x402PaymentRequiredException with a list of
\* requirements, or raises another error.
BusinessLogic(kind, requirements) ==
    [kind |-> kind, payment_requirements |-> requirements]

PublicInfo == [kind |-> "info", product |-> ""]

business_logic_fn(fn, task) ==
    [raised |-> IF fn.kind = "free" THEN "" ELSE fn.kind,
     task |-> IF fn.kind = "free"
              THEN [task EXCEPT
                      !.artifacts = <<PublicInfo>>,
                      !.status = TaskStatus(TaskState.COMPLETED, NoMessage)]
              ELSE task,
     exception |-> [text |-> IF fn.payment_requirements = <<>>
                             THEN "Payment required"
                             ELSE "Payment required for "
                                  \o fn.payment_requirements[1].product,
                    payment_requirements |-> fn.payment_requirements]]

\* faulty variant: the free path hands back the task it was given, not the
\* task the callback returned
process_task_returns_argument(task, payment_store, fn, v, s) ==
    LET ctx == Context(task, payment_store)
        invoked == [ctx EXCEPT !.bl_calls = @ + 1]
        outcome == business_logic_fn(fn, task)
    IN  IF _get_payment_status(task) = PaymentStatus.PAYMENT_SUBMITTED
        THEN _handle_payment_submission(ctx, v, s)
        ELSE IF outcome.raised = ""
        THEN invoked
        ELSE IF outcome.raised = "quote"
        THEN _handle_payment_required(invoked, outcome.exception)
        ELSE [invoked EXCEPT
                !.task.status = TaskStatus(TaskState.FAILED, NoMessage)]

\* faulty variant: an unexpected error is recorded like a payment failure
process_task_records_error(task, payment_store, fn, v, s) ==
    LET ctx == Context(task, payment_store)
        invoked == [ctx EXCEPT !.bl_calls = @ + 1]
        outcome == business_logic_fn(fn, task)
    IN  IF _get_payment_status(task) = PaymentStatus.PAYMENT_SUBMITTED
        THEN _handle_payment_submission(ctx, v, s)
        ELSE IF outcome.raised = ""
        THEN [invoked EXCEPT !.task = outcome.task]
        ELSE IF outcome.raised = "quote"
        THEN _handle_payment_required(invoked, outcome.exception)
        ELSE [invoked EXCEPT
                !.task = _record_payment_failure(
                             [task EXCEPT !.status.state = TaskState.FAILED],
                             x402ErrorCode.INVALID_SIGNATURE,
                             SettleResponse(FALSE, "base", "", "error"))]

process_task(task, payment_store, fn, v, s) ==
    LET ctx == Context(task, payment_store)
        invoked == [ctx EXCEPT !.bl_calls = @ + 1]
        outcome == business_logic_fn(fn, task)
    IN  IF _get_payment_status(task) = PaymentStatus.PAYMENT_SUBMITTED
        THEN _handle_payment_submission(ctx, v, s)
        ELSE IF outcome.raised = ""
        THEN [invoked EXCEPT !.task = outcome.task]
        ELSE IF outcome.raised = "quote"
        THEN _handle_payment_required(invoked, outcome.exception)
        ELSE [invoked EXCEPT
                !.task.status = TaskStatus(TaskState.FAILED, NoMessage)]

\* ---------------------------------------------------------- the server

VARIABLES
    payment_store,  \* x402PaymentMiddleware.payment_store
    phase,          \* "idle", or "returned": a call's result awaits delivery
    call,           \* the call being answered: its inputs and what it did
    attempts,       \* per task id, the settle calls the client's payments led to
    session,        \* the client's ask in progress: text, tasks sent, reply
    elapsed,        \* per task id, the seconds since it was last quoted
    probe,          \* a value examined on its own, and what was made of it
    http,           \* the HTTP exchange in progress: request and response headers
    workers,        \* per worker thread, where it stands in process_task
    settle_count    \* per task id, the settle calls since the id was last quoted

vars == <<payment_store, phase, call, attempts, session, elapsed, probe, http,
          workers, settle_count>>

\* the X-A2A-Extensions header: absent, or the extension URIs it lists
\* (the comma-separated value, one element per URI)
X402_EXTENSION_URI == "https://github.com/google-a2a/a2a-x402/v0.1"

NoHeader == [present |-> FALSE, value |-> <<>>]
Header(value) == [present |-> TRUE, value |-> value]

\* an exchange: the request's header and the response's
NoExchange == [request |-> NoHeader, response |-> NoHeader]

\* the worker threads of the server
Workers == {"w1", "w2"}

race_vars == <<workers, settle_count>>

\* the callbacks a caller may hand over
BusinessLogics ==
    {BusinessLogic("free", <<>>), BusinessLogic("error", <<>>)}
    \cup {BusinessLogic("quote", r) : r \in ReqLists(MaxReqs)}

\* the callbacks handed over with a submission: one that would return and
\* one that would demand payment again (neither is ever invoked)
SubmissionLogics ==
    {BusinessLogic("free", <<>>), BusinessLogic("quote", <<ReqA>>)}

\* a fresh request (no status message), or a task whose status message
\* carries a status value other than payment-submitted
RequestTasks(id) ==
    {Task(id, TaskStatus(TaskState.SUBMITTED, NoMessage), <<>>)}
    \cup {Task(id, TaskStatus(TaskState.INPUT_REQUIRED,
                      MessageDict("hello", "container",
                                  [EmptyMetadata EXCEPT !.status = st])), <<>>)
          : st \in (PaymentStatusValues \ {PaymentStatus.PAYMENT_SUBMITTED})
                   \cup {"", "bogus"}}

SubmissionMetadata ==
    {[EmptyMetadata EXCEPT !.status = PaymentStatus.PAYMENT_SUBMITTED,
                           !.payload = p, !.receipts = rc, !.required = rq,
                           !.order_ref = o]
     : o \in {"", "order-7"},
       p \in PayloadPool \cup {None, Unparseable},
       rc \in {NoReceipts} \cup
              {[present |-> TRUE, list |-> l]
               : l \in PriorReceiptLists(MaxPriorReceipts) \ {<<>>}},
       rq \in {NoRequired,
               [present |-> TRUE, x402Version |-> 1,
                accepts |-> <<ModelDump(ReqA)>>]}}

SubmissionTasks(id) ==
    {Task(id, TaskStatus(TaskState.INPUT_REQUIRED,
                  MessageDict("Payment authorization provided", shape, md)), <<>>)
     : shape \in {"container", "bare"}, md \in SubmissionMetadata}

NoTask == Task("", TaskStatus("", NoMessage), <<>>)

NoCall == [task |-> NoTask, fn |-> BusinessLogic("", <<>>),
           store_before |-> EmptyStore, result |-> NoTask,
           calls |-> <<>>, bl_calls |-> 0]

\* what ask() hands back: nothing yet, or the response text
NoReply == [returned |-> FALSE, response |-> <<>>]
Reply(response) == [returned |-> TRUE, response |-> response]

\* the user's say on a payment: not asked, or auto_approve and what was
\* typed at the prompt ("" when there was no prompt)
NoApproval == [asked |-> FALSE, auto_approve |-> FALSE, confirm |-> ""]
Approval(auto_approve, confirm) ==
    [asked |-> TRUE, auto_approve |-> auto_approve, confirm |-> confirm]

\* sent: the ids of the tasks sent so far, in order; signed: the
\* requirements the wallet was asked to sign, in order
NoSession == [message_text |-> <<>>, sent |-> <<>>, reply |-> NoReply,
              signed |-> <<>>, approval |-> NoApproval]

NoProbe == [kind |-> "none"]

\* a worker thread: where it stands in process_task ("idle" between tasks),
\* its task object, and the locals of _handle_payment_submission
IdleWorker == [pc |-> "idle", task |-> NoTask, payload |-> None,
               requirements |-> <<>>, calls |-> <<>>, requoted |-> FALSE]

Init ==
    /\ payment_store = EmptyStore
    /\ phase = "idle"
    /\ call = NoCall
    /\ attempts = [id \in TaskIds |-> 0]
    /\ session = NoSession
    /\ elapsed = [id \in TaskIds |-> 0]
    /\ probe = NoProbe
    /\ http = NoExchange
    /\ workers = [w \in Workers |-> IdleWorker]
    /\ settle_count = [id \in TaskIds |-> 0]

\* the server's part of handling one task: process_task(task, fn), the
\* facilitator answering v to verify and s to settle if it is called
ServerCall(task, fn, v, s) ==
    /\ phase = "idle"
    /\ LET done == process_task(task, payment_store, fn, v, s)
       IN  /\ payment_store' = done.payment_store
           /\ call' = [task |-> task, fn |-> fn,
                       store_before |-> payment_store,
                       result |-> done.task,
                       calls |-> done.calls, bl_calls |-> done.bl_calls]
    /\ phase' = "returned"

\* the server handles one task sent by some caller
ProcessTask(task, fn, v, s) ==
    /\ ServerCall(task, fn, v, s)
    /\ UNCHANGED <<attempts, session, elapsed, probe, http>>
    /\ UNCHANGED race_vars

\* the returned task is handed back to the caller
Respond ==
    /\ phase = "returned"
    /\ phase' = "idle"
    /\ call' = NoCall
    /\ session' = NoSession
    /\ http' = NoExchange
    /\ UNCHANGED <<payment_store, attempts, elapsed, probe>>
    /\ UNCHANGED race_vars

HandleRequest ==
    /\ phase = "idle"
    /\ \E id \in TaskIds : \E task \in RequestTasks(id) :
       \E fn \in BusinessLogics :
           ProcessTask(task, fn, "valid", "success")

HandleSubmission ==
    /\ phase = "idle"
    /\ \E id \in TaskIds : \E task \in SubmissionTasks(id) :
       \E fn \in SubmissionLogics : \E v \in VerifyOutcomes :
       \E s \in (IF v = "valid" THEN SettleOutcomes ELSE {"success"}) :
           ProcessTask(task, fn, v, s)

Next == HandleRequest \/ HandleSubmission \/ Respond

Spec == Init /\ [][Next]_vars

\* ---------------------------------------------------------- the client

_extract_custom_fields(message) ==
    IF ~message.present THEN EmptyMetadata
    ELSE IF message.shape = "nometa" THEN EmptyMetadata
    ELSE message.fields

_create_task(id) == Task(id, TaskStatus(TaskState.SUBMITTED, NoMessage), <<>>)

\* faulty variant: the task state is not looked at
_is_payment_required_any_state(task) ==
    /\ task.status.message.present
    /\ _extract_custom_fields(task.status.message).status
           = PaymentStatus.PAYMENT_REQUIRED

_is_payment_required(task) ==
    /\ task.status.state = TaskState.INPUT_REQUIRED
    /\ task.status.message.present
    /\ _extract_custom_fields(task.status.message).status
           = PaymentStatus.PAYMENT_REQUIRED

\* faulty variant: completion is accepted from a COMPLETED task only
_is_payment_completed_when_task_completed(task) ==
    /\ task.status.state = TaskState.COMPLETED
    /\ task.status.message.present
    /\ _extract_custom_fields(task.status.message).status
           = PaymentStatus.PAYMENT_COMPLETED

_is_payment_completed(task) ==
    /\ task.status.message.present
    /\ _extract_custom_fields(task.status.message).status
           = PaymentStatus.PAYMENT_COMPLETED

\* PaymentRequirements(**requirements_dict)
ParseRequirements(requirements_dict) ==
    PaymentRequirements(requirements_dict.scheme, requirements_dict.network,
                        requirements_dict.maxAmountRequired,
                        requirements_dict.maxTimeoutSeconds,
                        requirements_dict.extra.product)

\* the wallet signs an authorization for the one requirement it is given:
\* the payload carries that requirement's scheme and network
sign_payment(requirements) ==
    PaymentPayload(requirements.scheme, requirements.network)

\* the offers of a payment-required task, <<>> when it carries none
Accepts(task) == _extract_custom_fields(task.status.message).required.accepts

\* faulty variant: the offer signed is the last one, not the first
PaymentTask_signs_last(task) ==
    LET signed_payload ==
            sign_payment(ParseRequirements(Accepts(task)[Len(Accepts(task))]))
    IN  Task(task.id,
             TaskStatus(TaskState.INPUT_REQUIRED,
                 MessageDict("Payment authorization provided", "container",
                     [EmptyMetadata EXCEPT
                        !.status = PaymentStatus.PAYMENT_SUBMITTED,
                        !.payload = signed_payload])),
             <<>>)

\* the task _handle_payment_flow resubmits: the same id, and a new message
\* holding the submitted status and the payload signed for the first offer
PaymentTask(task) ==
    LET signed_payload == sign_payment(ParseRequirements(Accepts(task)[1]))
    IN  Task(task.id,
             TaskStatus(TaskState.INPUT_REQUIRED,
                 MessageDict("Payment authorization provided", "container",
                     [EmptyMetadata EXCEPT
                        !.status = PaymentStatus.PAYMENT_SUBMITTED,
                        !.payload = signed_payload])),
             <<>>)

\* the text of the returned task's artifacts (an artifact stands for its
\* text), or the note that there is none
NoResponse == [kind |-> "none", product |-> ""]
_extract_response(task) ==
    IF task.artifacts = <<>> THEN <<NoResponse>> ELSE task.artifacts

\* ask, up to the first answer: one task is sent; unless the answer demands
\* payment, its response text is what ask returns
Ask(message_text, answer) ==
    [NoSession EXCEPT
       !.message_text = message_text,
       !.sent = <<answer.id>>,
       !.reply = IF _is_payment_required(answer) THEN NoReply
                 ELSE Reply(_extract_response(answer))]

\* faulty variant: a payment that did not complete is raised as an error
FlowReply_strict(result_task) ==
    IF _is_payment_completed(result_task)
    THEN Reply(_extract_response(result_task))
    ELSE NoReply

\* _handle_payment_flow after the resubmission: completed or not, the
\* response text of the returned task is handed back
FlowReply(result_task) == Reply(_extract_response(result_task))

\* ask: a new task is sent to a server whose callback is fn
ClientAsk ==
    /\ phase = "idle"
    /\ \E id \in TaskIds : \E fn \in BusinessLogics :
        /\ ServerCall(_create_task(id), fn, "valid", "success")
        /\ session' = Ask(<<>>, call'.result)
        /\ UNCHANGED <<attempts, elapsed, probe, http>>
        /\ UNCHANGED race_vars

\* str.lower(), on the words that occur
Lower(word) ==
    CASE word = "Buy" -> "buy"
      [] word = "I" -> "i"
      [] word = "LAPTOP" -> "laptop"
      [] word = "YES" -> "yes"
      [] OTHER -> word

\* what the user may do about a payment: auto_approve (no prompt), or an
\* answer typed at the prompt
Approvals ==
    {Approval(TRUE, "")}
    \cup {Approval(FALSE, confirm) : confirm \in {"yes", "YES", "no", ""}}

\* faulty variant: any answer but "no" is taken for approval
Approved_unless_no(approval) ==
    approval.auto_approve \/ Lower(approval.confirm) # "no"

\* lines 240-244: the payment goes ahead
Approved(approval) ==
    approval.auto_approve \/ Lower(approval.confirm) = "yes"

\* the text handed back when the user does not approve
Cancelled == [kind |-> "cancelled", product |-> ""]

\* _handle_payment_flow: the answer demands payment; unless the user declines,
\* the client signs the first offer and resubmits, and the merchant's answer
\* replaces the first one
PaymentFlow(approvals) ==
    /\ phase = "returned"
    /\ ~session.reply.returned
    /\ _is_payment_required(call.result)
    /\ Accepts(call.result) # <<>>
    /\ attempts[call.task.id] < MaxAttempts
    /\ \E approval \in approvals :
       IF ~Approved(approval)
       THEN /\ session' = [session EXCEPT !.approval = approval,
                                          !.reply = Reply(<<Cancelled>>)]
            /\ UNCHANGED <<payment_store, call, attempts>>
       ELSE
       \E v \in VerifyOutcomes :
       \E s \in (IF v = "valid" THEN SettleOutcomes ELSE {"success"}) :
          LET payment_task == PaymentTask(call.result)
              done == process_task(payment_task, payment_store, call.fn, v, s)
              settles == Cardinality({k \in 1..Len(done.calls) :
                                         done.calls[k].fn = "settle"})
          IN  /\ payment_store' = done.payment_store
              /\ call' = [task |-> payment_task, fn |-> call.fn,
                          store_before |-> payment_store,
                          result |-> done.task,
                          calls |-> done.calls, bl_calls |-> done.bl_calls]
              /\ attempts' = [attempts EXCEPT ![call.task.id] = @ + settles]
              /\ session' = [session EXCEPT
                                !.approval = approval,
                                !.signed = Append(@,
                                    ParseRequirements(Accepts(call.result)[1])),
                                !.sent = Append(@, payment_task.id),
                                !.reply = FlowReply(done.task)]
    /\ UNCHANGED <<phase, elapsed, probe, http>>
    /\ UNCHANGED race_vars

\* ask(message_text, auto_approve=True), as the tests and the demo call it
ClientPay == PaymentFlow({Approval(TRUE, "")})

\* ask(message_text): the user is prompted
PromptedPay == PaymentFlow(Approvals)

ClientNext == ClientAsk \/ ClientPay \/ Respond

\* ------------------------------------------------- functions on their own

\* the tasks a client may get back from a server: any task state, with or
\* without artifacts, no status message or one of any shape and status value
ReceivedTasks ==
    {Task("t1", TaskStatus(state, message), artifacts)
     : state \in {TaskState[k] : k \in DOMAIN TaskState},
       artifacts \in {<<>>, <<PublicInfo>>},
       message \in {NoMessage, MessageDict("hello", "nometa", EmptyMetadata)}
                   \cup {MessageDict("hello", shape,
                                     [EmptyMetadata EXCEPT !.status = st])
                         : shape \in {"container", "bare"},
                           st \in PaymentStatusValues \cup {"", "bogus"}}}

\* the client examines a task it got back
InspectTask ==
    /\ \E task \in ReceivedTasks :
          probe' = [kind |-> "task", task |-> task,
                    is_payment_required |-> _is_payment_required(task),
                    is_payment_completed |-> _is_payment_completed(task)]
    /\ UNCHANGED <<payment_store, phase, call, attempts, session, elapsed, http>>
    /\ UNCHANGED race_vars

\* _calculate_price, line 227
PriceModulus == 99900001
PriceFloor == 100000

\* faulty variant: the floor is folded into the modulus instead of added
PriceFromHash_floor_in_modulus(h) == h % (PriceModulus + PriceFloor)

\* the price made of a digest read as an integer
PriceFromHash(h) == (h % PriceModulus) + PriceFloor

\* digests around the multiples of the modulus
HashValues ==
    {h \in {k * PriceModulus + d
              : k \in 0..MaxWraps, d \in {-2, -1, 0, 1, 2}} : h >= 0}

\* the merchant prices a digest
CalculatePrice ==
    /\ \E h \in HashValues :
          probe' = [kind |-> "price", hash |-> h, price |-> PriceFromHash(h)]
    /\ UNCHANGED <<payment_store, phase, call, attempts, session, elapsed, http>>
    /\ UNCHANGED race_vars

ProbeNext == InspectTask \/ CalculatePrice

ProbeSpec == Init /\ [][ProbeNext]_vars

\* ----------------------------------------------------------- the merchant

\* A message text is a sequence of words.  The merchant looks for keywords
\* and articles as substrings; the words used here are such that matching
\* word by word finds the same.  Words are compared in lower case.
MessageTexts ==
    {<<"Buy", "a", "laptop">>, <<"purchase", "the", "LAPTOP">>,
     <<"I", "want", "a", "phone">>, <<"order", "phone">>, <<"Buy">>,
     <<"hello">>, <<"what", "is", "the", "status">>}

_is_buy_request(message) ==
    \E i \in 1..Len(message) :
        Lower(message[i]) \in {"buy", "purchase", "want", "order"}

\* the words left once keywords ("i want" is one) and articles are removed
RECURSIVE ProductWords(_)
ProductWords(message) ==
    IF message = <<>> THEN <<>>
    ELSE LET word == Lower(Head(message))
             removed ==
                 \/ word \in {"buy", "purchase", "order", "a", "an", "the"}
                 \/ word = "i" /\ Len(message) > 1
                              /\ Lower(message[2]) = "want"
         IN  IF word = "i" /\ removed
             THEN ProductWords(Tail(Tail(message)))
             ELSE IF removed THEN ProductWords(Tail(message))
             ELSE <<word>> \o ProductWords(Tail(message))

\* the texts used leave one word at most
_extract_product_name(message) ==
    IF ProductWords(message) = <<>> THEN "item" ELSE ProductWords(message)[1]

\* int(sha256(name), 16), reduced modulo PriceModulus (the digest itself has
\* 256 bits; the price is made of this residue alone)
Sha256Residue(name) ==
    CASE name = "laptop" -> 87102425
      [] name = "phone" -> 88425155
      [] name = "item" -> 26921776

_calculate_price(product_name) ==
    PriceFromHash(Sha256Residue(Lower(product_name)))

\* str(price): the decimal digits
RECURSIVE str(_)
str(n) == IF n < 10 THEN <<n>> ELSE Append(str(n \div 10), n % 10)

\* faulty variant: the price is made to differ from task to task
_handle_buy_request_priced_per_task(task, message) ==
    LET product_name == _extract_product_name(message)
        price == _calculate_price(product_name)
                 + (IF task.id = "t1" THEN 0 ELSE 1)
    IN  BusinessLogic("quote",
            <<PaymentRequirements("exact", "base-sepolia", str(price), 1200,
                                  product_name)>>)

\* raises payment required with the one requirement for the product
_handle_buy_request(task, message) ==
    LET product_name == _extract_product_name(message)
        price == _calculate_price(product_name)
    IN  BusinessLogic("quote",
            <<PaymentRequirements("exact", "base-sepolia", str(price), 1200,
                                  product_name)>>)

\* what the merchant's callback does with a task of this message text
_execute_business_logic(task, message_text) ==
    IF _is_buy_request(message_text)
    THEN _handle_buy_request(task, message_text)
    ELSE BusinessLogic("free", <<>>)

\* ask: the client sends a new task with the text to the merchant
MerchantAsk ==
    \E id \in TaskIds : \E message_text \in MessageTexts :
        /\ ServerCall(_create_task(id),
                      _execute_business_logic(_create_task(id), message_text),
                      "valid", "success")
        /\ session' = Ask(message_text, call'.result)
        /\ UNCHANGED <<attempts, elapsed, probe, http>>
        /\ UNCHANGED race_vars

MerchantNext == MerchantAsk \/ ClientPay \/ Respond

MerchantSpec == Init /\ [][MerchantNext]_vars

\* the merchant and a client whose user is prompted for each payment
InteractiveNext == MerchantAsk \/ PromptedPay \/ Respond

InteractiveSpec == Init /\ [][InteractiveNext]_vars

\* ------------------------------------------------- the merchant over HTTP

\* the header values a request may carry: none, the extension alone, another
\* extension, the extension among others, an empty list
RequestHeaders ==
    {NoHeader,
     Header(<<X402_EXTENSION_URI>>),
     Header(<<"https://example.com/wrong-extension">>),
     Header(<<"https://example.com/other", X402_EXTENSION_URI,
              "https://example.com/another">>),
     Header(<<>>)}

\* x402_a2a.check_extension_activation: the header lists the extension
check_extension_activation(headers) ==
    /\ headers.present
    /\ \E i \in 1..Len(headers.value) : headers.value[i] = X402_EXTENSION_URI

\* faulty variant: the extension is announced on every response
add_x402_header_always(request_headers, response_headers) ==
    Header(<<X402_EXTENSION_URI>>)

\* the after_request hook of setup_routes: the response's header
add_x402_header(request_headers, response_headers) ==
    IF check_extension_activation(request_headers)
    THEN Header(<<X402_EXTENSION_URI>>)
    ELSE response_headers

\* a request reaches the task route: handle_task answers it, whatever its
\* headers, and the hook then sets the response's header
HttpRequest ==
    /\ phase = "idle"
    /\ \E id \in TaskIds : \E message_text \in MessageTexts :
       \E headers \in RequestHeaders :
           /\ ServerCall(_create_task(id),
                         _execute_business_logic(_create_task(id),
                                                 message_text),
                         "valid", "success")
           /\ session' = [NoSession EXCEPT !.message_text = message_text]
           /\ http' = [request |-> headers,
                       response |-> add_x402_header(headers, NoHeader)]
           /\ UNCHANGED <<attempts, elapsed, probe>>
           /\ UNCHANGED race_vars

HttpNext == HttpRequest \/ Respond

HttpSpec == Init /\ [][HttpNext]_vars

\* --------------------------------------- the server, one thread per task

\* The server answers each request on a thread of its own, and the threads
\* share payment_store without a lock.  A worker runs
\* _handle_payment_submission one store access or facilitator call at a
\* time; what lies between two such points touches the worker's own task
\* only.

\* the quotes and the submissions of the racing callers
RaceLogics ==
    {BusinessLogic("quote", <<ReqA>>), BusinessLogic("quote", <<ReqB, ReqA>>)}

RaceSubmissions(id) ==
    {Task(id, TaskStatus(TaskState.INPUT_REQUIRED,
                  MessageDict("Payment authorization provided", "container",
                      [EmptyMetadata EXCEPT
                         !.status = PaymentStatus.PAYMENT_SUBMITTED,
                         !.payload = p])), <<>>)
     : p \in {PaymentPayload("exact", "base-sepolia"),
              PaymentPayload("upto", "base")}}

\* the running call of worker w, on the store as it is now
WorkerContext(w) ==
    [task |-> workers[w].task, payment_store |-> payment_store,
     calls |-> workers[w].calls, bl_calls |-> 0]

\* a request is answered by a quote: its only shared access is the
\* assignment payment_store[task.id] = ...; workers busy with the same id
\* now hold a requirement of the quote before
RaceQuote ==
    /\ \E id \in TaskIds : \E fn \in RaceLogics :
         /\ payment_store' =
                process_task(_create_task(id), payment_store, fn,
                             "valid", "success").payment_store
         /\ settle_count' = [settle_count EXCEPT ![id] = 0]
         /\ workers' = [w \in Workers |->
                          IF workers[w].pc # "idle" /\ workers[w].task.id = id
                          THEN [workers[w] EXCEPT !.requoted = TRUE]
                          ELSE workers[w]]
    /\ UNCHANGED <<phase, call, attempts, session, elapsed, probe, http>>

\* process_task finds a submission and enters the pipeline
Receive(w) ==
    /\ workers[w].pc = "idle"
    /\ \E id \in TaskIds : \E task \in RaceSubmissions(id) :
         workers' = [workers EXCEPT
                       ![w] = [IdleWorker EXCEPT !.pc = "check", !.task = task]]
    /\ UNCHANGED <<payment_store, settle_count>>
    /\ UNCHANGED <<phase, call, attempts, session, elapsed, probe, http>>

\* lines 240-280: payment_store.get(task.id) and the checks on what it gave
CheckStep(w) ==
    /\ workers[w].pc = "check"
    /\ LET ctx == WorkerContext(w)
           checked == CheckSubmission(ctx)
           failed == _fail_payment(ctx, checked.error_code,
                                   checked.error_reason)
       IN  IF checked.error_code # ""
           THEN /\ payment_store' = failed.payment_store
                /\ workers' = [workers EXCEPT ![w].pc = "return",
                                              ![w].task = failed.task]
           ELSE /\ payment_store' = payment_store
                /\ workers' = [workers EXCEPT
                                 ![w].pc = "verify",
                                 ![w].payload = checked.payload,
                                 ![w].requirements = checked.requirements]
    /\ UNCHANGED settle_count
    /\ UNCHANGED <<phase, call, attempts, session, elapsed, probe, http>>

\* lines 282-328: facilitator.verify, then failure or the verified task
VerifyStep(w) ==
    /\ workers[w].pc = "verify"
    /\ \E v \in VerifyOutcomes :
         LET verified == VerifyAndMark(WorkerContext(w), workers[w].payload,
                                       workers[w].requirements[1], v)
         IN  /\ payment_store' = verified.ctx.payment_store
             /\ workers' = [workers EXCEPT
                              ![w].pc = IF verified.valid THEN "settle"
                                        ELSE "return",
                              ![w].task = verified.ctx.task,
                              ![w].calls = verified.ctx.calls]
    /\ UNCHANGED settle_count
    /\ UNCHANGED <<phase, call, attempts, session, elapsed, probe, http>>

\* lines 330-351: facilitator.settle and the record of its answer
SettleStep(w) ==
    /\ workers[w].pc = "settle"
    /\ \E s \in SettleOutcomes :
         LET settled == SettleAndRecord(WorkerContext(w), workers[w].payload,
                                        workers[w].requirements[1], s)
         IN  workers' = [workers EXCEPT ![w].pc = "cleanup",
                                        ![w].task = settled.task,
                                        ![w].calls = settled.calls]
    /\ settle_count' =
           IF workers[w].requoted THEN settle_count
           ELSE [settle_count EXCEPT ![workers[w].task.id] = @ + 1]
    /\ UNCHANGED payment_store
    /\ UNCHANGED <<phase, call, attempts, session, elapsed, probe, http>>

\* line 356: if task.id in self.payment_store
TestEntry(w) ==
    /\ workers[w].pc = "cleanup"
    /\ workers' = [workers EXCEPT
                     ![w].pc = IF workers[w].task.id \in DOMAIN payment_store
                               THEN "delete" ELSE "return"]
    /\ UNCHANGED <<payment_store, settle_count>>
    /\ UNCHANGED <<phase, call, attempts, session, elapsed, probe, http>>

\* line 357: del self.payment_store[task.id]; when the entry has gone since
\* the test, the KeyError is caught by process_task (lines 141-147), which
\* sets task.status = TaskStatus(state=FAILED)
DeleteEntry(w) ==
    /\ workers[w].pc = "delete"
    /\ IF workers[w].task.id \in DOMAIN payment_store
       THEN /\ payment_store' = StorePop(payment_store, workers[w].task.id)
            /\ workers' = [workers EXCEPT ![w].pc = "return"]
       ELSE /\ payment_store' = payment_store
            /\ workers' = [workers EXCEPT
                             ![w].pc = "return",
                             ![w].task.status =
                                 TaskStatus(TaskState.FAILED, NoMessage)]
    /\ UNCHANGED settle_count
    /\ UNCHANGED <<phase, call, attempts, session, elapsed, probe, http>>

\* process_task returns the worker's task; the thread is free again
Return(w) ==
    /\ workers[w].pc = "return"
    /\ workers' = [workers EXCEPT ![w] = IdleWorker]
    /\ UNCHANGED <<payment_store, settle_count>>
    /\ UNCHANGED <<phase, call, attempts, session, elapsed, probe, http>>

RaceNext ==
    \/ RaceQuote
    \/ \E w \in Workers : Receive(w)
    \/ \E w \in Workers : CheckStep(w)
    \/ \E w \in Workers : VerifyStep(w)
    \/ \E w \in Workers : SettleStep(w)
    \/ \E w \in Workers : TestEntry(w)
    \/ \E w \in Workers : DeleteEntry(w)
    \/ \E w \in Workers : Return(w)

RaceSpec == Init /\ [][RaceNext]_vars

\* --------------------------------------------------- the client, with time

\* callbacks quoting one offer: a timeout of 600 s, of 1200 s, or none
TimedLogics == {BusinessLogic("quote", <<r>>) : r \in ReqPool}

\* ask, answered by a quote: the quoted id's clock starts
TimedAsk ==
    \E id \in TaskIds : \E fn \in TimedLogics :
        /\ ServerCall(_create_task(id), fn, "valid", "success")
        /\ session' = Ask(<<>>, call'.result)
        /\ elapsed' = [elapsed EXCEPT ![id] = 0]
        /\ UNCHANGED <<attempts, probe, http>>
        /\ UNCHANGED race_vars

\* time passes, also while the client waits for the payment's approval;
\* the clocks stop counting at MaxTicks steps
Tick ==
    /\ \E id \in TaskIds : elapsed[id] < MaxTicks * TickSeconds
    /\ elapsed' = [id \in TaskIds |->
                      IF elapsed[id] < MaxTicks * TickSeconds
                      THEN elapsed[id] + TickSeconds ELSE elapsed[id]]
    /\ UNCHANGED <<payment_store, phase, call, attempts, session, probe, http>>
    /\ UNCHANGED race_vars

TimedNext == TimedAsk \/ Tick \/ ClientPay \/ Respond

TimedSpec == Init /\ [][TimedNext]_vars

ClientSpec == Init /\ [][ClientNext]_vars

\* ------------------------------------------------------------ properties

\* what the call just answered was given, and what it returned
Returned == phase = "returned"
Incoming == call.task.status.message.fields
Outgoing == call.result.status.message.fields
Receipts == Outgoing.receipts.list

\* the call ran the submission pipeline
IsSubmission ==
    /\ Returned
    /\ call.task.status.message.present
    /\ Incoming.status = "payment-submitted"

\* the call took the quote path
IsQuote == Returned /\ ~IsSubmission /\ call.fn.kind = "quote"

HasPayload == Incoming.payload.kind = "ok"
StoredBefore == StoreGet(call.store_before, call.task.id)
HadEntry == StoredBefore # <<>>

\* indices of the stored requirements with the payload's scheme and network
Matches ==
    {i \in 1..Len(StoredBefore) :
        /\ StoredBefore[i].scheme = Incoming.payload.scheme
        /\ StoredBefore[i].network = Incoming.payload.network}

\* the submission passes the checks made before the facilitator is asked
Admitted == IsSubmission /\ HasPayload /\ HadEntry /\ Matches # {}
RejectedEarly == IsSubmission /\ ~(HasPayload /\ HadEntry /\ Matches # {})

Called(fn) == {k \in 1..Len(call.calls) : call.calls[k].fn = fn}
Answered(fn, outcomes) ==
    \E k \in Called(fn) : call.calls[k].outcome \in outcomes

VerifyRejected == Answered("verify", {"invalid", "invalid_noreason"})
VerifyFailed == Answered("verify", VerifyOutcomes \ {"valid"})
SettleFailed == Answered("settle", SettleOutcomes \ {"success"})

\* the submission failed at some step of the pipeline
FailedSubmission ==
    IsSubmission /\ (RejectedEarly \/ VerifyFailed \/ SettleFailed)

\* a quoted, matching submission that verify accepted and settle settled
HappyPath ==
    /\ Admitted
    /\ Answered("verify", {"valid"})
    /\ Answered("settle", {"success"})

C2_Original ==
    HappyPath =>
        /\ call.result.status.state = TaskState.COMPLETED
        /\ Outgoing.status = PaymentStatus.PAYMENT_COMPLETED
        /\ Len(Receipts) = 1
        /\ Receipts[1].success

\* C2 amended: on the happy path the returned task is COMPLETED with status
\* payment-completed, and its receipts sequence is the receipts the
\* submission already carried followed by exactly one element with
\* success = true (so of length 1 when the submission carried none).
C2_HappyPath ==
    HappyPath =>
        /\ call.result.status.state = TaskState.COMPLETED
        /\ Outgoing.status = PaymentStatus.PAYMENT_COMPLETED
        /\ Len(Receipts) = Len(Incoming.receipts.list) + 1
        /\ SubSeq(Receipts, 1, Len(Receipts) - 1) = Incoming.receipts.list
        /\ Receipts[Len(Receipts)].success

\* a happy path whose submission carried an earlier receipt
C2_Witness ==
    /\ HappyPath
    /\ Incoming.receipts.list # <<>>
    /\ Len(Receipts) = Len(Incoming.receipts.list) + 1
    /\ Outgoing.status = PaymentStatus.PAYMENT_COMPLETED

\* C3: a quoted, matching submission that verify answers with
\* is_valid = false returns a FAILED task whose metadata carries status
\* payment-failed and error INVALID_SIGNATURE, and the store entry is deleted.
C3_InvalidSignature ==
    (Admitted /\ VerifyRejected) =>
        /\ call.result.status.state = TaskState.FAILED
        /\ Outgoing.status = PaymentStatus.PAYMENT_FAILED
        /\ Outgoing.error = "INVALID_SIGNATURE"
        /\ call.task.id \notin DOMAIN payment_store

\* C4: every submission that fails at any pipeline step returns a task in
\* task state FAILED.
C4_FailureIsFailed ==
    FailedSubmission => call.result.status.state = TaskState.FAILED

\* C5: every submission that fails at any pipeline step returns a task whose
\* receipts sequence ends with an element with success = false that carries
\* an error reason.
C5_FailureHasReceipt ==
    FailedSubmission =>
        /\ Receipts # <<>>
        /\ ~Receipts[Len(Receipts)].success
        /\ Receipts[Len(Receipts)].errorReason # ""

\* C6: a submission rejected before verification records the error code of
\* the step that rejected it: MISSING_PAYLOAD without a parseable payload,
\* MISSING_REQUIREMENTS without a store entry, NO_MATCHING_REQUIREMENT when
\* no stored requirement has the payload's scheme and network.
C6_EarlyErrorCodes ==
    /\ (IsSubmission /\ ~HasPayload) => Outgoing.error = "MISSING_PAYLOAD"
    /\ (IsSubmission /\ HasPayload /\ ~HadEntry) =>
           Outgoing.error = "MISSING_REQUIREMENTS"
    /\ (IsSubmission /\ HasPayload /\ HadEntry /\ Matches = {}) =>
           Outgoing.error = "NO_MATCHING_REQUIREMENT"

\* C7: the requirement passed to verify and to settle is the first element
\* of the stored list, in list order, whose scheme and network both equal
\* the payload's; when no element matches, none is selected and passed on.
C7_MatchingRule ==
    (IsSubmission /\ HasPayload /\ HadEntry) =>
        /\ Matches = {} => call.calls = <<>>
        /\ Matches # {} =>
             /\ call.calls # <<>>
             /\ \A k \in 1..Len(call.calls) :
                  /\ call.calls[k].requirements =
                         StoredBefore[CHOOSE i \in Matches :
                                         \A j \in Matches : i <= j]
                  /\ call.calls[k].payload = Incoming.payload

\* stored [A(s1,n1), B(s2,n2)], payload (s2,n2): B went to verify and settle
C7_Witness ==
    /\ IsSubmission
    /\ StoredBefore = <<ReqA, ReqB>>
    /\ Incoming.payload = PaymentPayload("upto", "base")
    /\ Len(call.calls) = 2
    /\ \A k \in 1..2 : call.calls[k].requirements = ReqB

\* C8: a submission rejected because its payload is missing, the store has
\* no entry for its id, or no stored requirement matches, makes no call of
\* verify and no call of settle.
C8_NoCallOnEarlyRejection ==
    RejectedEarly => (Called("verify") = {} /\ Called("settle") = {})

\* quoted base-sepolia, paid on base: rejected with the facilitator untouched
C8_Witness ==
    /\ RejectedEarly
    /\ StoredBefore = <<ReqA>>
    /\ Incoming.payload = PaymentPayload("exact", "base")
    /\ call.calls = <<>>
    /\ call.result.status.state = TaskState.FAILED

\* C9: a submission whose task id has no store entry is rejected as
\* MISSING_REQUIREMENTS and is not treated as a new quote: the callback is
\* not invoked, the facilitator is not called, no store entry is created.
C9_DuplicateResubmission ==
    (IsSubmission /\ HasPayload /\ call.task.id \notin DOMAIN call.store_before) =>
        /\ Outgoing.error = "MISSING_REQUIREMENTS"
        /\ call.bl_calls = 0
        /\ call.calls = <<>>
        /\ call.task.id \notin DOMAIN payment_store

\* C10: within one call of process_task verify is called at most once and
\* settle at most once, whatever they answer.
C10_NoRetries ==
    Returned =>
        /\ Cardinality(Called("verify")) <= 1
        /\ Cardinality(Called("settle")) <= 1

\* settle raised after a valid verify, and was not called again
C10_Witness ==
    /\ Returned
    /\ Answered("verify", {"valid"})
    /\ Answered("settle", {"raise"})
    /\ Cardinality(Called("settle")) = 1


\* the payment-required signal the callback of the answered call raised
Signal == business_logic_fn(call.fn, call.task).exception

\* C11: when the callback signals payment required with an ordered list R,
\* the returned task is INPUT_REQUIRED, its status is payment-required, its
\* x402.payment.required is {x402Version: 1, accepts: A} with A of the
\* length and in the order of R, and the message body is the signal's text.
C11_QuoteOutput ==
    IsQuote =>
        /\ call.result.status.state = TaskState.INPUT_REQUIRED
        /\ call.result.status.message.present
        /\ call.result.status.message.text = Signal.text
        /\ Outgoing.status = PaymentStatus.PAYMENT_REQUIRED
        /\ Outgoing.required.present
        /\ Outgoing.required.x402Version = 1
        /\ Len(Outgoing.required.accepts) = Len(Signal.payment_requirements)
        /\ \A i \in 1..Len(Signal.payment_requirements) :
             LET a == Outgoing.required.accepts[i]
                 r == Signal.payment_requirements[i]
             IN  /\ a.scheme = r.scheme
                 /\ a.network = r.network
                 /\ a.maxAmountRequired = r.max_amount_required
                 /\ a.maxTimeoutSeconds = r.max_timeout_seconds
                 /\ a.extra.product = r.product

\* a quote of two offers, B before A, returned in that order
C11_Witness ==
    /\ IsQuote
    /\ call.fn.payment_requirements = <<ReqB, ReqA>>
    /\ Len(Outgoing.required.accepts) = 2
    /\ Outgoing.required.accepts[1].scheme = "upto"
    /\ call.result.status.state = TaskState.INPUT_REQUIRED


\* C12: the store holds one entry per task id; a quote R2 for an id that
\* still holds the list R1 of an earlier quote (no submission in between)
\* leaves exactly R2 under that id and touches no other id, and a submission
\* is matched against the list its id holds at that time and no other.
C12_QuoteSupersedes ==
    /\ IsQuote =>
         /\ DOMAIN payment_store = DOMAIN call.store_before \cup {call.task.id}
         /\ payment_store[call.task.id] = Signal.payment_requirements
         /\ \A id \in DOMAIN call.store_before \ {call.task.id} :
              payment_store[id] = call.store_before[id]
    /\ IsSubmission =>
         \A k \in 1..Len(call.calls) :
            \E i \in 1..Len(StoredBefore) :
               call.calls[k].requirements = StoredBefore[i]

\* t1 was quoted A, is quoted B now, and holds B alone
C12_Witness ==
    /\ IsQuote
    /\ call.task.id = "t1"
    /\ StoredBefore = <<ReqA>>
    /\ call.fn.payment_requirements = <<ReqB>>
    /\ payment_store["t1"] = <<ReqB>>


\* C13: the call runs the submission pipeline (its task is not answered by
\* the callback or by a quote, and its store entry is gone) exactly when the
\* incoming x402.payment.status is payment-submitted; for any other value
\* (absent, unrecognised, payment-required, -verified, -completed, -failed)
\* the callback is invoked exactly once and the facilitator never.
C13_PhaseDispatch ==
    Returned =>
        LET submitted ==
                /\ call.task.status.message.present
                /\ call.task.status.message.shape \in {"container", "bare"}
                /\ call.task.status.message.fields.status
                       = PaymentStatus.PAYMENT_SUBMITTED
        IN  /\ submitted =>
                  /\ call.task.id \notin DOMAIN payment_store
                  /\ call.result.artifacts # <<PublicInfo>>
                  /\ _get_metadata_dict(call.result.status.message).status
                         # PaymentStatus.PAYMENT_REQUIRED
            /\ ~submitted => (call.bl_calls = 1 /\ call.calls = <<>>)

C13_Witness ==
    /\ Returned
    /\ call.task.status.message.present
    /\ Incoming.status = PaymentStatus.PAYMENT_VERIFIED
    /\ call.fn.kind = "quote"
    /\ call.bl_calls = 1
    /\ call.calls = <<>>

\* C14: when the task is not a submission and the callback returns
\* normally, the returned task is exactly the callback's result: no
\* x402.payment.* key is added and neither state nor artifacts are changed;
\* the store is left as it was.
C14_FreePath ==
    (Returned /\ ~IsSubmission /\ call.fn.kind = "free") =>
        /\ call.result = business_logic_fn(call.fn, call.task).task
        /\ _get_metadata_dict(call.result.status.message) = EmptyMetadata
        /\ payment_store = call.store_before

C14_Witness ==
    /\ Returned
    /\ call.fn.kind = "free"
    /\ call.task.status.message.present
    /\ Incoming.status = PaymentStatus.PAYMENT_COMPLETED
    /\ call.result.status.state = TaskState.COMPLETED
    /\ ~call.result.status.message.present
    /\ call.result.artifacts = <<PublicInfo>>

\* C15: every call returns a task; when the callback fails with an error
\* other than payment-required, the returned task is FAILED and carries no
\* receipt and no error code.
C15_UnexpectedErrors ==
    /\ Returned => call.result.id = call.task.id
    /\ (Returned /\ ~IsSubmission /\ call.fn.kind = "error") =>
         LET metadata == _get_metadata_dict(call.result.status.message)
         IN  /\ call.result.status.state = TaskState.FAILED
             /\ metadata.receipts = NoReceipts
             /\ metadata.error = ""

\* the callback failed on a task whose message carried payment-failed
C15_Witness ==
    /\ Returned
    /\ call.fn.kind = "error"
    /\ call.task.status.message.present
    /\ Incoming.status = PaymentStatus.PAYMENT_FAILED
    /\ call.result.status.state = TaskState.FAILED
    /\ call.bl_calls = 1


\* C16: when settle raises after a successful verify, the pipeline still
\* returns its task: one receipt with success = false whose reason holds
\* the error text is appended, the error code SETTLEMENT_FAILED is recorded
\* with status payment-failed, and the store entry is deleted.
C16_SettleErrorConverted ==
    (IsSubmission /\ Answered("settle", {"raise"})) =>
        /\ call.result.status.message.present
        /\ Len(Receipts) = Len(Incoming.receipts.list) + 1
        /\ Receipts[Len(Receipts)].success = FALSE
        /\ Receipts[Len(Receipts)].errorReason
               = "Settlement failed: " \o FacilitatorError
        /\ Outgoing.error = x402ErrorCode.SETTLEMENT_FAILED
        /\ Outgoing.status = PaymentStatus.PAYMENT_FAILED
        /\ call.task.id \notin DOMAIN payment_store

C16_Witness ==
    /\ IsSubmission
    /\ Answered("verify", {"valid"})
    /\ Answered("settle", {"raise"})
    /\ call.task.id \in DOMAIN call.store_before
    /\ Outgoing.error = x402ErrorCode.SETTLEMENT_FAILED
    /\ Len(Receipts) = 1

\* the task the same call returns when verify answers is_valid = false
RejectedInstead ==
    process_task(call.task, call.store_before, call.fn, "invalid", "success")

\* C17: a verify call that raises ends like one answering is_valid = false,
\* the reason text apart: settle is not called, the task state and the
\* payment status are the same, the error code is INVALID_SIGNATURE, and
\* the store entry is deleted.
C17_VerifyErrorAsRejection ==
    (Admitted /\ Answered("verify", {"raise"})) =>
        /\ Called("settle") = {}
        /\ call.result.status.state = RejectedInstead.task.status.state
        /\ _get_metadata_dict(call.result.status.message).status
               = _get_metadata_dict(RejectedInstead.task.status.message).status
        /\ _get_metadata_dict(call.result.status.message).error
               = x402ErrorCode.INVALID_SIGNATURE
        /\ call.task.id \notin DOMAIN payment_store

\* C18: a submission that reaches settle gets exactly one receipt appended;
\* on success the status is payment-completed and payload and required are
\* both absent; on failure the status is payment-failed, the error is set,
\* the payload is absent and a required key that was present is kept.
C18_SettlementRecording ==
    (IsSubmission /\ Called("settle") # {}) =>
        /\ Len(Receipts) = Len(Incoming.receipts.list) + 1
        /\ \A i \in 1..Len(Incoming.receipts.list) :
              Receipts[i] = Incoming.receipts.list[i]
        /\ Answered("settle", {"success"}) =>
             /\ Outgoing.status = PaymentStatus.PAYMENT_COMPLETED
             /\ Receipts[Len(Receipts)].success
             /\ Outgoing.payload = None
             /\ Outgoing.required = NoRequired
        /\ SettleFailed =>
             /\ Outgoing.status = PaymentStatus.PAYMENT_FAILED
             /\ ~Receipts[Len(Receipts)].success
             /\ Outgoing.error # ""
             /\ Outgoing.payload = None
             /\ Outgoing.required = Incoming.required

\* settlement failed on a submission that still carried its required key
C18_Witness ==
    /\ IsSubmission
    /\ Answered("settle", {"failure"})
    /\ Incoming.required.present
    /\ Outgoing.required.present
    /\ Outgoing.payload = None
    /\ Outgoing.status = PaymentStatus.PAYMENT_FAILED


\* the custom fields after the engine's three writes, each applied to the
\* incoming task of a submission
AfterVerified ==
    _get_metadata_dict(_record_payment_verified(call.task).status.message)
AfterSuccess ==
    _get_metadata_dict(_record_payment_success(call.task,
        SettleResponse(TRUE, "base", "0xmock", "")).status.message)
AfterFailure ==
    _get_metadata_dict(_record_payment_failure(call.task,
        x402ErrorCode.SETTLEMENT_FAILED,
        SettleResponse(FALSE, "base", "", "mock_settlement_failed"))
            .status.message)

\* C19: a metadata write on an existing status message (recording verified,
\* success or failure) leaves every custom-fields key it is not specified
\* to set or drop present with its value: verified sets the status only;
\* success sets status and receipts and drops payload and required; failure
\* sets status, error and receipts and drops payload. The fields of the
\* task a settled submission returns show the same.
C19_WritesPreserveKeys ==
    IsSubmission =>
        /\ AfterVerified
               = [Incoming EXCEPT !.status = AfterVerified.status,
                                  !.custom_fields = AfterVerified.custom_fields]
        /\ AfterSuccess.order_ref = Incoming.order_ref
        /\ AfterSuccess.error = Incoming.error
        /\ AfterFailure.order_ref = Incoming.order_ref
        /\ AfterFailure.required = Incoming.required
        /\ Called("settle") # {} =>
             /\ Outgoing.order_ref = Incoming.order_ref
             /\ Answered("settle", {"success"}) =>
                    Outgoing.error = Incoming.error

\* a settled submission in the bare shape that carried another owner's key
C19_Witness ==
    /\ IsSubmission
    /\ Called("settle") # {}
    /\ call.task.status.message.shape = "bare"
    /\ Incoming.order_ref = "order-7"
    /\ Outgoing.order_ref = "order-7"
    /\ Outgoing.status = PaymentStatus.PAYMENT_COMPLETED


C21_CodecRoundTrip ==
    IsSubmission =>
        LET written == [Incoming EXCEPT
                          !.status = PaymentStatus.PAYMENT_VERIFIED]
            message == _record_payment_verified(call.task).status.message
        IN  /\ _get_metadata_dict(message) = written
            /\ _extract_custom_fields(message) = written

\* C23: when a submission is verified, the callback handed to process_task
\* is executed (after verify succeeds and before settle is called).
C23_BusinessLogicOnPaidPath ==
    (IsSubmission /\ Answered("verify", {"valid"})) => call.bl_calls = 1


\* the stored requirement the submission's payload matches first
Matched == StoredBefore[CHOOSE i \in Matches : \A j \in Matches : i <= j]

\* C22: a submission whose matched requirement declares a positive max
\* timeout is accepted only if it is processed within that many seconds of
\* the quote, and is otherwise rejected with EXPIRED_PAYMENT before verify is
\* called; an absent or non-positive timeout never causes rejection.
C22_ExpiryCheck ==
    Admitted =>
        LET expired == /\ Matched.max_timeout_seconds > 0
                       /\ elapsed[call.task.id] > Matched.max_timeout_seconds
        IN  /\ expired =>
                 /\ call.calls = <<>>
                 /\ call.result.status.state = TaskState.FAILED
            /\ ~expired => Called("verify") # {}


\* the x402.payment.status an examined task carries, "" when it has none
ProbedStatus ==
    LET message == probe.task.status.message
    IN  IF message.present /\ message.shape \in {"container", "bare"}
        THEN message.fields.status ELSE ""

\* C24: is_payment_required(task) is true exactly when the task state is
\* INPUT_REQUIRED and the decoded x402.payment.status is payment-required:
\* false without a status message, in any other task state, and for any
\* other status value.
C24_QuoteDetection ==
    probe.kind = "task" =>
        (probe.is_payment_required <=>
            /\ probe.task.status.state = TaskState.INPUT_REQUIRED
            /\ ProbedStatus = PaymentStatus.PAYMENT_REQUIRED)

\* a COMPLETED task that still carries payment-required is no quote
C24_Witness ==
    /\ probe.kind = "task"
    /\ probe.task.status.state = TaskState.COMPLETED
    /\ ProbedStatus = PaymentStatus.PAYMENT_REQUIRED
    /\ ~probe.is_payment_required

\* C25: is_payment_completed(task) is true exactly when the decoded
\* x402.payment.status is payment-completed, whatever the task state.
C25_CompletionDetection ==
    probe.kind = "task" =>
        (probe.is_payment_completed <=>
            ProbedStatus = PaymentStatus.PAYMENT_COMPLETED)

\* a FAILED task carrying payment-completed counts as completed
C25_Witness ==
    /\ probe.kind = "task"
    /\ probe.task.status.state = TaskState.FAILED
    /\ probe.task.status.message.shape = "bare"
    /\ ProbedStatus = PaymentStatus.PAYMENT_COMPLETED
    /\ probe.is_payment_completed

\* C29 as stated: every price p satisfies 100000 <= p < 100000000.
C29_Original ==
    probe.kind = "price" =>
        (100000 <= probe.price /\ probe.price < 100000000)

\* C29: for every non-negative digest h the price (h mod 99900001) + 100000
\* is an integer p with 100000 <= p <= 100000000, both ends attained.
C29_PriceRange ==
    probe.kind = "price" =>
        /\ probe.price \in Int
        /\ 100000 <= probe.price
        /\ probe.price <= 100000000
        /\ probe.price = (probe.hash % 99900001) + 100000

\* a digest one below a multiple of the modulus is priced 100000000
C29_Witness ==
    /\ probe.kind = "price"
    /\ probe.hash = 2 * PriceModulus - 1
    /\ probe.price = 100000000


\* C26: for an approved payment-required task the client signs exactly
\* accepts[0] and sends a new task with the quoted task's identifier, task
\* state INPUT_REQUIRED, and metadata holding exactly x402.payment.status =
\* payment-submitted and x402.payment.payload = the signed payload.
C26_ClientResubmission ==
    IsSubmission =>
        /\ Len(session.sent) = 2
        /\ session.sent[2] = session.sent[1]
        /\ call.task.id = session.sent[2]
        /\ call.task.id \in DOMAIN call.store_before
        /\ StoredBefore # <<>>
        /\ call.task.status.state = TaskState.INPUT_REQUIRED
        /\ call.task.status.message.shape = "container"
        /\ Incoming.payload.kind = "ok"
        /\ Incoming.payload.scheme = StoredBefore[1].scheme
        /\ Incoming.payload.network = StoredBefore[1].network
        /\ Incoming = [EmptyMetadata EXCEPT
                         !.status = PaymentStatus.PAYMENT_SUBMITTED,
                         !.payload = Incoming.payload]

\* quoted [B, A]: the payload sent is the one signed for B
C26_Witness ==
    /\ IsSubmission
    /\ StoredBefore = <<ReqB, ReqA>>
    /\ Incoming.payload = PaymentPayload("upto", "base")
    /\ call.task.status.state = TaskState.INPUT_REQUIRED

\* C27: when the task returned after the resubmission does not carry
\* payment-completed (the server answered FAILED without metadata, say), the
\* client raises no exception and returns the response text extracted from
\* that task.
C27_SoftWarning ==
    (IsSubmission /\ _get_metadata_dict(call.result.status.message).status
                         # PaymentStatus.PAYMENT_COMPLETED) =>
        /\ session.reply.returned
        /\ session.reply.response =
               IF call.result.artifacts = <<>> THEN <<NoResponse>>
               ELSE call.result.artifacts

\* verification failed: a bare FAILED task, and "No response" handed back
C27_Witness ==
    /\ IsSubmission
    /\ VerifyFailed
    /\ call.result.status.state = TaskState.FAILED
    /\ ~call.result.status.message.present
    /\ session.reply = Reply(<<NoResponse>>)


\* the product a text asks for: the word that is a product's name
Mentions(message_text, name) ==
    \E i \in 1..Len(message_text) : Lower(message_text[i]) = name

\* C28: with an auto-approving client, the merchant and a facilitator that
\* verifies and settles, ask() of a buy request sends exactly two tasks with
\* one identifier (request, then submission), the second response carries
\* payment-completed and a confirmation naming the product, and the store
\* has no entry for the identifier afterwards; ask() of any other request
\* sends exactly one task and triggers no quote.
C28_EndToEnd ==
    /\ (IsSubmission /\ Answered("verify", {"valid"})
                     /\ Answered("settle", {"success"})) =>
         /\ _is_buy_request(session.message_text)
         /\ Len(session.sent) = 2
         /\ session.sent[1] = session.sent[2]
         /\ call.task.id = session.sent[1]
         /\ Outgoing.status = PaymentStatus.PAYMENT_COMPLETED
         /\ Len(call.result.artifacts) = 1
         /\ call.result.artifacts[1].kind = "confirmation"
         /\ \A name \in {"laptop", "phone"} :
               Mentions(session.message_text, name) =>
                   call.result.artifacts[1].product = name
         /\ session.reply = Reply(call.result.artifacts)
         /\ call.task.id \notin DOMAIN payment_store
    /\ (Returned /\ ~_is_buy_request(session.message_text)) =>
         /\ Len(session.sent) = 1
         /\ session.reply = Reply(<<PublicInfo>>)
         /\ ~_is_payment_required(call.result)
         /\ call.calls = <<>>
         /\ payment_store = call.store_before

\* "Buy a laptop", paid: two tasks under t1, the laptop confirmed
C28_Witness ==
    /\ IsSubmission
    /\ session.message_text = <<"Buy", "a", "laptop">>
    /\ session.sent = <<"t1", "t1">>
    /\ Outgoing.status = PaymentStatus.PAYMENT_COMPLETED
    /\ call.result.artifacts = <<[kind |-> "confirmation", product |-> "laptop"]>>
    /\ "t1" \notin DOMAIN payment_store

\* the maxAmountRequired a request with this text on this task is quoted now
QuotedNow(id, message_text) ==
    Accepts(process_task(_create_task(id), payment_store,
                         _execute_business_logic(_create_task(id), message_text),
                         "valid", "success").task)[1].maxAmountRequired

C31_ActivationHeader ==
    Returned =>
        /\ (http.response = Header(<<X402_EXTENSION_URI>>))
               <=> (/\ http.request.present
                    /\ \E i \in 1..Len(http.request.value) :
                           http.request.value[i] = X402_EXTENSION_URI)
        /\ ~(http.response = Header(<<X402_EXTENSION_URI>>))
               => ~http.response.present
        /\ ~http.request.present =>
               /\ call.result.id = call.task.id
               /\ _is_buy_request(session.message_text)
                      => /\ call.result.status.state = TaskState.INPUT_REQUIRED
                         /\ Outgoing.status = PaymentStatus.PAYMENT_REQUIRED
               /\ ~_is_buy_request(session.message_text)
                      => /\ call.result.status.state = TaskState.COMPLETED
                         /\ call.result.artifacts = <<PublicInfo>>

C31_WitnessNoHeader ==
    /\ Returned
    /\ ~http.request.present
    /\ call.result.status.state = TaskState.COMPLETED

C31_Witness ==
    /\ Returned
    /\ Len(http.request.value) = 3
    /\ http.response = Header(<<X402_EXTENSION_URI>>)

\* C32: on the quote path, on every path of the submission pipeline and when
\* the callback fails unexpectedly, the returned task has the identifier of
\* the task that came in.
C32_TaskIdentity ==
    (\/ IsQuote
     \/ IsSubmission
     \/ (Returned /\ ~IsSubmission /\ call.fn.kind = "error"))
        => /\ call.result.id = call.task.id
           /\ call.result.id \in TaskIds

\* a submission for t2 that verify rejected
C32_Witness ==
    /\ IsSubmission
    /\ VerifyRejected
    /\ call.task.id = "t2"
    /\ call.result.status.state = TaskState.FAILED

\* C33: a call for task id T leaves the entry of every other id as it was;
\* the free path and the unexpected-error path leave the whole store as it
\* was; and T's entry goes away only in a call that ran the submission
\* pipeline for T, so a quote nobody pays for stays.
C33_StoreFrame ==
    Returned =>
        /\ \A id \in TaskIds \ {call.task.id} :
               /\ id \in DOMAIN payment_store <=> id \in DOMAIN call.store_before
               /\ id \in DOMAIN payment_store
                      => payment_store[id] = call.store_before[id]
        /\ (~IsSubmission /\ call.fn.kind \in {"free", "error"})
               => payment_store = call.store_before
        /\ (/\ call.task.id \in DOMAIN call.store_before
            /\ call.task.id \notin DOMAIN payment_store)
               => IsSubmission

\* t2 is quoted; a submission for t1 removes t1's entry and leaves t2's
C33_Witness ==
    /\ IsSubmission
    /\ call.task.id = "t1"
    /\ "t1" \in DOMAIN call.store_before
    /\ "t1" \notin DOMAIN payment_store
    /\ "t2" \in DOMAIN payment_store
    /\ payment_store["t2"] = <<ReqB, ReqA>>

\* C34: settle is called only right after a verify call of the same
\* process_task call that answered is_valid = true for the same payload and
\* the same matched requirement; it is never called when verify rejected or
\* raised; and when settle is called the task already carries
\* payment-verified and is COMPLETED.
C34_VerifyBeforeSettle ==
    Returned =>
        /\ \A k \in Called("settle") :
               /\ k > 1
               /\ call.calls[k - 1].fn = "verify"
               /\ call.calls[k - 1].outcome = "valid"
               /\ call.calls[k - 1].payload = call.calls[k].payload
               /\ call.calls[k - 1].requirements = call.calls[k].requirements
               /\ call.calls[k].payload = Incoming.payload
               /\ Matches # {}
               /\ call.calls[k].requirements = Matched
               /\ call.calls[k].payment_status = PaymentStatus.PAYMENT_VERIFIED
               /\ call.calls[k].task_state = TaskState.COMPLETED
        /\ VerifyFailed => Called("settle") = {}

\* verify approved and settle was called with the second offer of the quote
C34_Witness ==
    /\ IsSubmission
    /\ Len(call.calls) = 2
    /\ call.calls[2].fn = "settle"
    /\ call.calls[2].requirements = ReqB
    /\ StoredBefore = <<ReqA, ReqB>>

\* C35: a task returned from the submission pipeline never carries the status
\* payment-submitted or payment-verified: its payment status is
\* payment-completed, payment-failed, or absent.
C35_NoIntermediateStatus ==
    IsSubmission =>
        LET status == _get_metadata_dict(call.result.status.message).status
        IN  /\ status \notin {PaymentStatus.PAYMENT_SUBMITTED,
                              PaymentStatus.PAYMENT_VERIFIED}
            /\ status \in {PaymentStatus.PAYMENT_COMPLETED,
                           PaymentStatus.PAYMENT_FAILED, ""}

\* the call passed through payment-verified on its way to payment-failed
C35_Witness ==
    /\ IsSubmission
    /\ \E k \in Called("settle") :
           /\ call.calls[k].payment_status = PaymentStatus.PAYMENT_VERIFIED
           /\ call.calls[k].outcome = "raise"
    /\ Outgoing.status = PaymentStatus.PAYMENT_FAILED

\* C36: for each quote stored for a task id, settle is called at most once
\* before the id is quoted again, also when two submissions for the id are
\* handled by two workers at the same time.
C36_QuoteConsumedOnce ==
    \A id \in TaskIds : settle_count[id] <= 1

\* the worker's settle call answered success
SettledWith(w, outcome) ==
    \E k \in 1..Len(workers[w].calls) :
        /\ workers[w].calls[k].fn = "settle"
        /\ workers[w].calls[k].outcome = outcome

\* C37: whatever the interleaving of the workers, a call whose settle
\* answered success returns a task with the status payment-completed and the
\* success receipt, never a bare FAILED task.
C37_SettlementReported ==
    \A w \in Workers :
        (workers[w].pc = "return" /\ SettledWith(w, "success")) =>
            LET metadata == _get_metadata_dict(workers[w].task.status.message)
            IN  /\ workers[w].task.status.state # TaskState.FAILED
                /\ metadata.status = PaymentStatus.PAYMENT_COMPLETED
                /\ metadata.receipts.present
                /\ metadata.receipts.list # <<>>
                /\ metadata.receipts.list[Len(metadata.receipts.list)].success

\* C38: a task returned from the submission pipeline as COMPLETED with the
\* purchase confirmation carries the status payment-completed, and its last
\* receipt is one of success.
C38_GoodsAgainstSettlement ==
    (/\ IsSubmission
     /\ call.result.status.state = TaskState.COMPLETED
     /\ \E i \in 1..Len(call.result.artifacts) :
            call.result.artifacts[i].kind = "confirmation")
        => /\ _get_metadata_dict(call.result.status.message).status
                  = PaymentStatus.PAYMENT_COMPLETED
           /\ Receipts # <<>>
           /\ Receipts[Len(Receipts)].success

\* the user was asked about a quoted payment and did not approve it
Declined ==
    /\ session.approval.asked
    /\ ~session.approval.auto_approve
    /\ Lower(session.approval.confirm) # "yes"

\* C39: when the user does not approve a quoted payment (auto_approve false
\* and the answer is not "yes"), the wallet is not called, no submission is
\* sent, and the store entry of the task id stays as it was quoted.
C39_DeclinedPayment ==
    Declined =>
        /\ session.signed = <<>>
        /\ Len(session.sent) = 1
        /\ ~IsSubmission
        /\ call.calls = <<>>
        /\ call.task.id = session.sent[1]
        /\ call.task.id \in DOMAIN payment_store
        /\ payment_store[call.task.id] = call.fn.payment_requirements
        /\ \A i \in 1..Len(Accepts(call.result)) :
               ParseRequirements(Accepts(call.result)[i])
                   = payment_store[call.task.id][i]
        /\ session.reply = Reply(<<Cancelled>>)

\* "Buy a laptop" on t1, the prompt left unanswered
C39_Witness ==
    /\ Declined
    /\ session.approval.confirm = ""
    /\ session.message_text = <<"Buy", "a", "laptop">>
    /\ "t1" \in DOMAIN payment_store
    /\ Len(payment_store["t1"]) = 1
    /\ payment_store["t1"][1].product = "laptop"
    /\ session.sent = <<"t1">>
    /\ session.reply.returned

\* C40: in the flow of client and server, with a wallet whose payload has
\* the scheme and network of the requirement it was given, the requirement
\* the server hands to verify and to settle is the list element the client
\* signed, accepts[0], also when several quoted requirements share one
\* scheme and network.
C40_SignedIsVerified ==
    (IsSubmission /\ session.approval.asked) =>
        /\ Len(session.signed) = 1
        /\ session.signed[1] = StoredBefore[1]
        /\ Incoming.payload.scheme = session.signed[1].scheme
        /\ Incoming.payload.network = session.signed[1].network
        /\ \A k \in 1..Len(call.calls) :
               call.calls[k].requirements = session.signed[1]

\* quoted [C, A], which share scheme and network: C is signed, verified and
\* settled
C40_Witness ==
    /\ IsSubmission
    /\ StoredBefore = <<ReqC, ReqA>>
    /\ session.signed = <<ReqC>>
    /\ Len(call.calls) = 2
    /\ call.calls[2].fn = "settle"
    /\ call.calls[2].requirements = ReqC

====
